---- MODULE Spec2Model ----
(***************************************************************************)
(* Public transportation network simulation (src/bus_sim.py).              *)
(*                                                                         *)
(* The program is a SimPy discrete-event simulation.  The model keeps the  *)
(* SimPy environment explicitly: the virtual clock, the event id counter   *)
(* and the event heap ordered by (time, priority, eid).  One action of the *)
(* model is one Environment.step(): the lowest event is popped, the clock  *)
(* moves to its time, and the process waiting on it runs up to its next    *)
(* yield.                                                                  *)
(*                                                                         *)
(* Virtual time is counted in ticks of one second (1/60 minute), the       *)
(* largest unit in which every delay of the program is a whole number.     *)
(* Random draws (exponential inter-arrival times, gaussian travel times,   *)
(* uniform destination choice) are nondeterministic choices from the       *)
(* finite supports a configuration carries.                                *)
(***************************************************************************)
EXTENDS Integers, Sequences, FiniteSets, TLC

\* ---------------------------------------------------------- configuration
BOARDING_TIME  == 3                  \* 3/60 minute per passenger
ALIGHTING_TIME == 2                  \* 2/60 minute per passenger
MIN_DWELL      == 6                  \* 0.1 minute
MIN_TRAVEL     == 30                 \* max(0.5, gauss(..)): 0.5 minute
TRAVEL_STEP    == 60                 \* min(1, t): 1 minute
SAMPLE_EVERY   == 60                 \* monitor: env.timeout(1)

\* Event priorities of simpy.core
URGENT == 0
NORMAL == 1

\* None
Unset == -1

\* Bounds of the model: the horizon (SIM_TIME, in ticks) of the long and of
\* the short configurations.
HorizonLong  == 320
HorizonShort == 180

Min(a, b) == IF a < b THEN a ELSE b
Max(a, b) == IF a > b THEN a ELSE b

\* The configurations explored.  A configuration is the module-level
\* CONFIGURATION block of the program: BUS_CAPACITY, SIM_TIME, ROUTES and
\* ARRIVAL_RATES.  ROUTES and ARRIVAL_RATES are dicts, kept here as sequences
\* in insertion order.  "travel" stands for (travel_mean, travel_sd): the
\* values a gauss draw may return; "draws" stands for the rate: the values
\* an exponential draw may return.
\*
\* CfgXY: one route [X, Y], one bus of capacity 2, arrivals at X only.
CfgXY ==
  [ name     |-> "XY",
    capacity |-> 2,
    sim_time |-> HorizonLong,
    routes   |-> << [name |-> "R", stops |-> <<"X", "Y">>, headway |-> 0,
                     num_buses |-> 1, travel |-> {-60, 144}] >>,
    rates    |-> << [stop |-> "X", draws |-> {60, 300}] >> ]

\* CfgCap1: one route [X, Y], one bus of capacity 1, arrivals at X and at the
\* last stop Y.
CfgCap1 ==
  [ name     |-> "Cap1",
    capacity |-> 1,
    sim_time |-> HorizonShort,
    routes   |-> << [name |-> "R", stops |-> <<"X", "Y">>, headway |-> 0,
                     num_buses |-> 1, travel |-> {30}] >>,
    rates    |-> << [stop |-> "X", draws |-> {30, 60}],
                    [stop |-> "Y", draws |-> {40, 200}] >> ]

\* CfgTwo: two routes as in the program, each with two buses of capacity 1;
\* the buses of route A start together, those of route B a minute apart.
\* Arrival rates for two stops of A, and one for a stop "Z9" on no route.
CfgTwo ==
  [ name     |-> "Two",
    capacity |-> 1,
    sim_time |-> HorizonShort,
    routes   |-> << [name |-> "A", stops |-> <<"A1", "A2", "A3">>, headway |-> 0,
                     num_buses |-> 2, travel |-> {30}],
                    [name |-> "B", stops |-> <<"B1", "B2">>, headway |-> 120,
                     num_buses |-> 2, travel |-> {45}] >>,
    rates    |-> << [stop |-> "A1", draws |-> {36, 72}],
                    [stop |-> "Z9", draws |-> {10}],
                    [stop |-> "A2", draws |-> {50}] >> ]

\* CfgLine: one route [X, Y, Z], one bus of capacity 2, arrivals at X for Y
\* or Z.
CfgLine ==
  [ name     |-> "Line",
    capacity |-> 2,
    sim_time |-> HorizonShort,
    routes   |-> << [name |-> "L", stops |-> <<"X", "Y", "Z">>, headway |-> 0,
                     num_buses |-> 1, travel |-> {30}] >>,
    rates    |-> << [stop |-> "X", draws |-> {50}] >> ]

Configs == {CfgXY, CfgCap1, CfgTwo, CfgLine}

\* ------------------------------------------------------------------ state
VARIABLES
  cfg,        \* the configuration of this run
  status,     \* "setup", "running" (inside env.run) or "halted"
  env,        \* simpy.Environment: [now, eid, queue]
  items,      \* stop name -> Store.items of the stop's queue (passenger ids)
  waiting,    \* stop name -> Store.get_queue: the buses whose take is pending
  pax,        \* passenger id -> the Passenger object
  gens,       \* the passenger_generator processes, in creation order
  buses,      \* the Bus objects with the locals of Bus.run, in creation order
  metrics,    \* the module-level metrics dict
  trace,      \* history: the events dispatched so far, in order
  puts,       \* history: stop name -> passenger ids put, in order
  takes,      \* history: stop name -> passenger ids taken, in order
  visits      \* history: bus -> its stop visits, in order

vars == <<cfg, status, env, items, waiting, pax, gens, buses, metrics, trace, puts, takes, visits>>

\* -------------------------------------------------------------- scheduler
NoProc == <<"none", 0>>
NoItem == <<>>

\* Mutant of Before: among events of one time and priority the youngest first.
BeforeYoungestFirst(a, b) ==
  \/ a.time < b.time
  \/ a.time = b.time /\ a.prio < b.prio
  \/ a.time = b.time /\ a.prio = b.prio /\ a.eid > b.eid

\* The heap order of simpy's event queue: (time, priority, eid).
Before(a, b) ==
  \/ a.time < b.time
  \/ a.time = b.time /\ a.prio < b.prio
  \/ a.time = b.time /\ a.prio = b.prio /\ a.eid < b.eid

\* heappush: the queue is kept as the sequence in which heappop returns it.
Insert(q, ev) ==
  LET k == Cardinality({i \in 1..Len(q) : Before(q[i], ev)})
  IN  SubSeq(q, 1, k) \o <<ev>> \o SubSeq(q, k + 1, Len(q))

\* Environment.schedule(event, priority, delay): the event gets the next eid.
Schedule(e, delay, prio, kind, proc, item) ==
  [ now   |-> e.now,
    eid   |-> e.eid + 1,
    queue |-> Insert(e.queue, [time |-> e.now + delay, prio |-> prio, eid |-> e.eid,
                               kind |-> kind, proc |-> proc, item |-> item]) ]

\* env.timeout(delay), yielded by process proc
Timeout(s, delay, proc) ==
  [s EXCEPT !.env = Schedule(@, delay, NORMAL, "timeout", proc, NoItem)]

\* env.process(generator): an Initialize event, URGENT, for each new process
RECURSIVE StartAll(_, _)
StartAll(e, procs) ==
  IF procs = <<>> THEN e
  ELSE StartAll(Schedule(e, 0, URGENT, "init", Head(procs), NoItem), Tail(procs))

\* ------------------------------------------------------------------ setup
StopsOf(c) == UNION { {c.routes[r].stops[j] : j \in 1..Len(c.routes[r].stops)}
                      : r \in 1..Len(c.routes) }

\* The first route (in ROUTES order) whose stops hold sname; 0 when none does.
RouteOf(c, sname) ==
  LET hits == { r \in 1..Len(c.routes) :
                  \E j \in 1..Len(c.routes[r].stops) : c.routes[r].stops[j] = sname }
  IN  IF hits = {} THEN 0 ELSE CHOOSE r \in hits : \A r2 \in hits : r <= r2

\* run_simulation, "Start passenger generators": one generator per arrival
\* rate whose stop is on a route; a rate whose stop is on no route starts none.
GenList(c) ==
  LET kept == SelectSeq(c.rates, LAMBDA r : RouteOf(c, r.stop) # 0)
  IN  [ i \in 1..Len(kept) |->
          [ stop        |-> kept[i].stop,
            draws       |-> kept[i].draws,
            route_stops |-> c.routes[RouteOf(c, kept[i].stop)].stops,
            pid         |-> 0 ] ]

\* Bus.__init__ for bus i (0-based) of route r
NewBus(c, r, i) ==
  [ id              |-> <<c.routes[r].name, i + 1>>,
    route_name      |-> c.routes[r].name,
    stops           |-> c.routes[r].stops,
    travel          |-> c.routes[r].travel,
    capacity        |-> c.capacity,
    start_time      |-> (i * c.routes[r].headway) \div c.routes[r].num_buses,
    onboard         |-> <<>>,
    current_index   |-> 0,
    active_minutes  |-> 0,
    occupied_minutes |-> 0,
    trips_completed |-> 0,
    \* locals of Bus.run
    pc              |-> "new",
    alighting       |-> <<>>,
    free_space      |-> 0,
    boarded         |-> 0,
    t               |-> 0,
    step            |-> 0 ]

\* run_simulation, "Start buses"
RECURSIVE BusList(_, _)
BusList(c, r) ==
  IF r > Len(c.routes) THEN <<>>
  ELSE [i \in 1..c.routes[r].num_buses |-> NewBus(c, r, i - 1)] \o BusList(c, r + 1)

NoMetrics ==
  [ waiting_times     |-> <<>>,
    passenger_records |-> <<>>,
    queue_time_series |-> <<>>,
    bus_stats         |-> <<>>,
    served_per_stop   |-> <<>> ]

Init ==
  /\ cfg \in Configs
  /\ status = "setup"
  /\ env = [now |-> 0, eid |-> 0, queue |-> <<>>]
  /\ items = <<>>
  /\ waiting = <<>>
  /\ pax = <<>>
  /\ gens = <<>>
  /\ buses = <<>>
  /\ metrics = NoMetrics
  /\ trace = <<>>
  /\ puts = <<>>
  /\ takes = <<>>
  /\ visits = <<>>

\* run_simulation up to and including the call of env.run(until=SIM_TIME):
\* stops, generators, buses and the monitor are created, then the stop event
\* of env.run is scheduled.
Setup ==
  /\ status = "setup"
  /\ LET g == GenList(cfg)
         b == BusList(cfg, 1)
         procs == [i \in 1..Len(g) |-> <<"gen", i>>]
                    \o [i \in 1..Len(b) |-> <<"bus", i>>]
                    \o << <<"mon", 0>> >>
         e == StartAll(env, procs)
     IN  /\ gens' = g
         /\ buses' = b
         /\ items' = [s \in StopsOf(cfg) |-> <<>>]
         /\ waiting' = [s \in StopsOf(cfg) |-> <<>>]
         /\ puts' = [s \in StopsOf(cfg) |-> <<>>]
         /\ takes' = [s \in StopsOf(cfg) |-> <<>>]
         /\ visits' = [i \in 1..Len(b) |-> <<>>]
         /\ metrics' = [metrics EXCEPT !.bus_stats =
                          [id \in {b[i].id : i \in 1..Len(b)} |->
                             [active_minutes |-> 0, occupied_minutes |-> 0,
                              trips_completed |-> 0]]]
         /\ env' = Schedule(e, cfg.sim_time, URGENT, "until", NoProc, NoItem)
  /\ status' = "running"
  /\ UNCHANGED <<cfg, pax, trace>>

\* ------------------------------------------------------- one scheduler step
\* Mutant of Running: events are still dispatched after env.run has returned.
RunningPastStop == status # "setup" /\ env.queue # <<>>

\* env.run is dispatching events
Running == status = "running" /\ env.queue # <<>>

\* The event Environment.step() pops next
Ev == Head(env.queue)

\* The mutable state right after the pop: env.now is the event's time.
Popped ==
  [ env     |-> [now |-> Ev.time, eid |-> env.eid, queue |-> Tail(env.queue)],
    items   |-> items,
    waiting |-> waiting,
    pax     |-> pax,
    gens    |-> gens,
    buses   |-> buses,
    metrics |-> metrics,
    puts    |-> puts,
    takes   |-> takes,
    visits  |-> visits ]

\* The state s a step ends in becomes the next state.
Commit(s) ==
  /\ env' = s.env
  /\ items' = s.items
  /\ waiting' = s.waiting
  /\ pax' = s.pax
  /\ gens' = s.gens
  /\ buses' = s.buses
  /\ metrics' = s.metrics
  /\ puts' = s.puts
  /\ takes' = s.takes
  /\ visits' = s.visits
  /\ trace' = Append(trace, [time |-> Ev.time, prio |-> Ev.prio, eid |-> Ev.eid,
                             kind |-> Ev.kind, proc |-> Ev.proc])
  /\ UNCHANGED <<cfg, status>>

\* A dict entry d[k], created with value v0 when k is not a key yet
DictGet(d, k, v0) == IF k \in DOMAIN d THEN d[k] ELSE v0
DictSet(d, k, v) == [x \in DOMAIN d \cup {k} |-> IF x = k THEN v ELSE d[x]]

\* --------------------------------------------------------------- monitor
\* monitor, lines 161-164: one (env.now, len(queue.items)) sample per stop
Sample(s) ==
  [s EXCEPT !.metrics.queue_time_series =
     [n \in DOMAIN s.items |->
        Append(DictGet(@, n, <<>>), <<s.env.now, Len(s.items[n])>>)]]

\* Mutant of MonitorStep: the first turn suspends without sampling.
MonitorStepSuspendFirst(s) ==
  IF s.env.now = 0
  THEN Timeout(s, SAMPLE_EVERY, <<"mon", 0>>)
  ELSE Timeout(Sample(s), SAMPLE_EVERY, <<"mon", 0>>)

\* One turn of monitor's loop: sample every stop, then yield env.timeout(1)
MonitorStep(s) == Timeout(Sample(s), SAMPLE_EVERY, <<"mon", 0>>)

\* The monitor process is started (its Initialize event is dispatched).
MonitorStart ==
  /\ Running /\ Ev.kind = "init" /\ Ev.proc = <<"mon", 0>>
  /\ Commit(MonitorStep(Popped))

\* The monitor's timeout fires.
MonitorTick ==
  /\ Running /\ Ev.kind = "timeout" /\ Ev.proc = <<"mon", 0>>
  /\ Commit(MonitorStep(Popped))

\* ------------------------------------------------------------ stop queue
\* Store._trigger_get: while a take is pending and the queue holds an item,
\* the oldest pending take gets the head item and its get event is scheduled.
RECURSIVE TriggerGet(_, _)
TriggerGet(s, stop) ==
  IF s.waiting[stop] = <<>> \/ s.items[stop] = <<>> THEN s
  ELSE LET id == Head(s.items[stop])
           b  == Head(s.waiting[stop])
       IN  TriggerGet([s EXCEPT !.items[stop] = Tail(@),
                                !.waiting[stop] = Tail(@),
                                !.takes[stop] = Append(@, id),
                                !.env = Schedule(@, 0, NORMAL, "get", <<"bus", b>>, id)],
                      stop)

\* ----------------------------------------------------- passenger generator
\* Stop.add_passenger -> Store.put: the item is appended at once and the put
\* event is scheduled; nobody waits on it.
AddPassenger(s, stop, id) ==
  [s EXCEPT !.items[stop] = Append(@, id),
            !.puts[stop] = Append(@, id),
            !.env = Schedule(@, 0, NORMAL, "put", NoProc, id)]

\* route_stops.index(stop.name), 1-based
IndexOf(stops, n) == CHOOSE j \in 1..Len(stops) :
                       stops[j] = n /\ \A k \in 1..(j - 1) : stops[k] # n

\* line 152: the stops random.choice may return, or the stop itself
DestChoices(gn) ==
  LET idx == IndexOf(gn.route_stops, gn.stop)
  IN  IF idx < Len(gn.route_stops)
      THEN {gn.route_stops[j] : j \in (idx + 1)..Len(gn.route_stops)}
      ELSE {gn.stop}

\* Passenger.__init__
NewPassenger(id, arrival_time, origin, destination) ==
  [ id |-> id, arrival_time |-> arrival_time, origin |-> origin,
    destination |-> destination, board_time |-> Unset, alight_time |-> Unset ]

\* passenger_generator, lines 148-149: draw the inter-arrival time and yield
GenWait(s, g, interarrival) == Timeout(s, interarrival, <<"gen", g>>)

\* passenger_generator, lines 150-154 and the next turn of the loop
GenStep(s, g, dest, interarrival) ==
  LET gn == s.gens[g]
      n  == gn.pid + 1
      id == <<gn.stop, n>>
      p  == NewPassenger(id, s.env.now, gn.stop, dest)
      s1 == [s EXCEPT !.gens[g].pid = n,
                      !.pax = DictSet(@, id, p)]
  IN  GenWait(AddPassenger(s1, gn.stop, id), g, interarrival)

\* A generator process is started.
GenStart ==
  /\ Running /\ Ev.kind = "init" /\ Ev.proc[1] = "gen"
  /\ \E d \in gens[Ev.proc[2]].draws :
       Commit(GenWait(Popped, Ev.proc[2], d))

\* A generator's timeout fires: a passenger arrives.
GenArrive ==
  /\ Running /\ Ev.kind = "timeout" /\ Ev.proc[1] = "gen"
  /\ \E d \in gens[Ev.proc[2]].draws, dest \in DestChoices(gens[Ev.proc[2]]) :
       Commit(GenStep(Popped, Ev.proc[2], dest, d))

\* A put event is dispatched: its callback, Store._trigger_get, serves the
\* pending takes of the stop the passenger was put at.
PutDone ==
  /\ Running /\ Ev.kind = "put"
  /\ Commit(TriggerGet(Popped, Ev.item[1]))

\* The stop event of env.run(until=SIM_TIME) is dispatched: env.run returns.
Halt ==
  /\ Running /\ Ev.kind = "until"
  /\ env' = [now |-> Ev.time, eid |-> env.eid, queue |-> Tail(env.queue)]
  /\ status' = "halted"
  /\ trace' = Append(trace, [time |-> Ev.time, prio |-> Ev.prio, eid |-> Ev.eid,
                             kind |-> Ev.kind, proc |-> Ev.proc])
  /\ UNCHANGED <<cfg, items, waiting, pax, gens, buses, metrics, puts, takes, visits>>

\* -------------------------------------------------------------------- bus
\* The stop the bus is at: self.stops[self.current_index]
StopAt(bu) == bu.stops[bu.current_index + 1]

\* list.remove(x): the first occurrence of x is dropped
RemoveFirst(q, x) ==
  LET j == CHOOSE j \in 1..Len(q) : q[j] = x /\ \A k \in 1..(j - 1) : q[k] # x
  IN  SubSeq(q, 1, j - 1) \o SubSeq(q, j + 1, Len(q))

\* Mutant of RemoveEach: the alighting passengers stay in the onboard list.
RemoveEachNone(q, xs) == q

\* lines 94-95: every alighting passenger is removed from the onboard list
RECURSIVE RemoveEach(_, _)
RemoveEach(q, xs) ==
  IF xs = <<>> THEN q ELSE RemoveEach(RemoveFirst(q, Head(xs)), Tail(xs))

\* History: field f of the bus's current visit becomes v.
Note(s, b, f, v) ==
  [s EXCEPT !.visits[b][Len(s.visits[b])] = [@ EXCEPT ![f] = v]]

RECURSIVE VisitTop(_, _, _)

\* line 137-140: move to the next stop, then the next turn of the loop
NextStop(s, b, d) ==
  LET bu  == s.buses[b]
      idx == (bu.current_index + 1) % Len(bu.stops)
      s1  == [s EXCEPT !.buses[b].current_index = idx]
      s2  == IF idx = 0
             THEN [s1 EXCEPT !.buses[b].trips_completed = @ + 1,
                             !.metrics.bus_stats[bu.id].trips_completed = @ + 1]
             ELSE s1
  IN  VisitTop(s2, b, d)

\* lines 127-134: while t > 0, one step of at most one minute
TravelLoop(s, b, d) ==
  LET bu == s.buses[b]
  IN  IF bu.t > 0
      THEN LET step == Min(TRAVEL_STEP, bu.t)
               occ  == Len(bu.onboard) * step
           IN  Timeout([s EXCEPT !.buses[b].step = step,
                                 !.buses[b].active_minutes = @ + step,
                                 !.buses[b].occupied_minutes = @ + occ,
                                 !.metrics.bus_stats[bu.id].active_minutes = @ + step,
                                 !.metrics.bus_stats[bu.id].occupied_minutes = @ + occ,
                                 !.buses[b].pc = "travel"],
                       step, <<"bus", b>>)
      ELSE NextStop(s, b, d)

\* Mutant of TravelTime: the draw is used as it comes.
TravelTimeRaw(d) == d

\* line 125: the travel time is the gauss draw d, at least half a minute
TravelTime(d) == Max(MIN_TRAVEL, d)

\* lines 125-126: the travel leg starts
TravelStart(s, b, d) ==
  LET s1 == Note(Note(s, b, "depart", s.env.now), b, "travel_time", TravelTime(d))
  IN  TravelLoop([s1 EXCEPT !.buses[b].t = TravelTime(d)], b, d)

\* Mutant of NeedsDwell: the alighting count is not looked at.
NeedsDwellNoBoarding(bu) == bu.boarded = 0

\* line 121: the minimum dwell is taken
NeedsDwell(bu) == bu.boarded = 0 /\ Len(bu.alighting) = 0

\* lines 120-122: minimum dwell if nobody boarded or alighted
AfterBoard(s, b, d) ==
  IF NeedsDwell(s.buses[b])
  THEN Timeout(Note([s EXCEPT !.buses[b].pc = "dwell"], b, "dwell", s.env.now),
               MIN_DWELL, <<"bus", b>>)
  ELSE TravelStart(s, b, d)

\* Mutant of CanBoard: the queue is not looked at.
CanBoardAnyQueue(s, b) == s.buses[b].free_space > 0

\* Mutant of CanBoard: the free space is not looked at.
CanBoardAnySpace(s, b) == Len(s.items[StopAt(s.buses[b])]) > 0

\* line 101: the boarding loop goes on
CanBoard(s, b) ==
  s.buses[b].free_space > 0 /\ Len(s.items[StopAt(s.buses[b])]) > 0

\* Mutant of GetPassenger: the last item of the queue is taken.
GetPassengerLast(s, b, stop) ==
  LET q  == s.items[stop]
      id == q[Len(q)]
  IN  [s EXCEPT !.items[stop] = SubSeq(q, 1, Len(q) - 1),
                !.takes[stop] = Append(@, id),
                !.env = Schedule(@, 0, NORMAL, "get", <<"bus", b>>, id)]

\* Mutant of GetPassenger: the head item is handed over but stays queued.
GetPassengerPeek(s, b, stop) ==
  LET id == Head(s.items[stop])
  IN  [s EXCEPT !.takes[stop] = Append(@, id),
                !.env = Schedule(@, 0, NORMAL, "get", <<"bus", b>>, id)]

\* Stop.get_passenger -> Store.get: the take joins the stop's pending takes
\* and Store._trigger_get runs: if the queue holds an item the head item is
\* popped at once and the get event, carrying it, is scheduled; otherwise the
\* take stays pending.  The bus waits on the get event.
GetPassenger(s, b, stop) ==
  TriggerGet([s EXCEPT !.waiting[stop] = Append(@, b)], stop)

\* lines 101-102: the loop test, and the take the bus yields on
BoardLoop(s, b, d) ==
  IF CanBoard(s, b)
  THEN GetPassenger([s EXCEPT !.buses[b].pc = "get"], b, StopAt(s.buses[b]))
  ELSE AfterBoard(s, b, d)

\* Mutant of FreeSpace: the passengers onboard are not subtracted.
FreeSpaceWhole(bu) == bu.capacity

\* line 99: the free space at the start of boarding
FreeSpace(bu) == bu.capacity - Len(bu.onboard)

\* lines 99-100
BoardInit(s, b, d) ==
  BoardLoop(Note([s EXCEPT !.buses[b].free_space = FreeSpace(s.buses[b]),
                           !.buses[b].boarded = 0],
                 b, "board_start", s.env.now), b, d)

\* Mutant of Alighting: the passengers that boarded at this stop alight.
AlightingAtOrigin(s, bu) ==
  SelectSeq(bu.onboard, LAMBDA id : s.pax[id].origin = StopAt(bu))

\* Mutant of Alighting: a passenger never alights where it boarded.
AlightingElsewhere(s, bu) ==
  SelectSeq(bu.onboard, LAMBDA id : /\ s.pax[id].destination = StopAt(bu)
                                    /\ s.pax[id].origin # StopAt(bu))

\* line 91: the onboard passengers whose destination is this stop
Alighting(s, bu) ==
  SelectSeq(bu.onboard, LAMBDA id : s.pax[id].destination = StopAt(bu))

\* Mutant of Alight: the alight time is also written into the passenger's record.
AlightReconciled(s, al) ==
  LET here(id) == \E j \in 1..Len(al) : al[j] = id
  IN  [s EXCEPT !.pax = [id \in DOMAIN @ |->
                           IF here(id) THEN [@[id] EXCEPT !.alight_time = s.env.now]
                           ELSE @[id]],
                !.metrics.passenger_records =
                   [i \in 1..Len(@) |->
                      IF here(@[i].id) THEN [@[i] EXCEPT !.alight = s.env.now]
                      ELSE @[i]]]

\* lines 92-93: p.alight_time = env.now, on the passenger object only
Alight(s, al) ==
  [s EXCEPT !.pax = [id \in DOMAIN @ |->
                       IF \E j \in 1..Len(al) : al[j] = id
                       THEN [@[id] EXCEPT !.alight_time = s.env.now]
                       ELSE @[id]]]

\* Mutant of AlightDelay: the bus does not wait for the alighting passengers.
AlightDelayNone(al) == 0

\* line 96: the alighting delay, per alighting passenger
AlightDelay(al) == Len(al) * ALIGHTING_TIME

\* lines 88-96: the top of the loop, alighting
VisitTop(s, b, d) ==
  LET bu  == s.buses[b]
      al  == Alighting(s, bu)
      s1  == [Alight(s, al) EXCEPT
                       !.buses[b].alighting = al,
                       !.buses[b].onboard = RemoveEach(@, al),
                       !.visits[b] = Append(@,
                          [ stop |-> StopAt(bu), arrive |-> s.env.now,
                            onboard |-> bu.onboard, queued |-> s.items[StopAt(bu)],
                            alighted |-> al, board_start |-> Unset, boarded |-> <<>>,
                            dwell |-> Unset, depart |-> Unset, travel_time |-> Unset ])]
  IN  IF al # <<>>
      THEN Timeout([s1 EXCEPT !.buses[b].pc = "alight"],
                   AlightDelay(al), <<"bus", b>>)
      ELSE BoardInit(s1, b, d)

\* Mutant of BoardTime: the waiting time is stored as the board time.
BoardTimeIsWait(s, p) == s.env.now - s.pax[p].arrival_time

\* line 103: p.board_time = self.env.now
BoardTime(s, p) == s.env.now

\* Mutant of Served: the counter of a stop is set to 1 at every boarding.
ServedOnce(d, stop) == DictSet(d, stop, 1)

\* lines 112-114: the per-stop counter, created at 0, is incremented
Served(d, stop) == DictSet(d, stop, DictGet(d, stop, 0) + 1)

\* lines 103-117: the taken passenger p boards and is recorded
Boarding(s, b, p) ==
  LET bu   == s.buses[b]
      stop == StopAt(bu)
      bt   == BoardTime(s, p)
      rec  == [ id |-> p, origin |-> s.pax[p].origin,
                destination |-> s.pax[p].destination,
                arrival |-> s.pax[p].arrival_time, board |-> bt,
                alight |-> s.pax[p].alight_time,
                route |-> bu.route_name, bus |-> bu.id ]
  IN  [Note(s, b, "boarded", Append(s.visits[b][Len(s.visits[b])].boarded, p))
         EXCEPT !.pax[p].board_time = bt,
                !.metrics.waiting_times = Append(@, bt - s.pax[p].arrival_time),
                !.buses[b].onboard = Append(@, p),
                !.metrics.passenger_records = Append(@, rec),
                !.metrics.served_per_stop = Served(@, stop),
                !.buses[b].boarded = @ + 1,
                !.buses[b].free_space = @ - 1,
                !.buses[b].pc = "board"]

\* Mutant of Board: one delay for the whole burst, after the first boarding.
BoardDelayOnce(s, b, p) ==
  Timeout(Boarding(s, b, p),
          IF s.buses[b].boarded = 0 THEN BOARDING_TIME ELSE 0, <<"bus", b>>)

\* Mutant of Board: no delay after a single boarding.
BoardWithoutDelay(s, b, p) == Timeout(Boarding(s, b, p), 0, <<"bus", b>>)

\* lines 103-118: the taken passenger p boards; the bus yields BOARDING_TIME
Board(s, b, p) == Timeout(Boarding(s, b, p), BOARDING_TIME, <<"bus", b>>)

\* line 134, then the loop test of line 127
TravelNext(s, b, d) ==
  TravelLoop([s EXCEPT !.buses[b].t = @ - s.buses[b].step], b, d)

\* The event dispatched resumes bus b, which waits at position pc.
Resumes(b, kind, pc) ==
  Running /\ Ev.kind = kind /\ Ev.proc = <<"bus", b>> /\ buses[b].pc = pc

\* A bus process is started: line 86, yield env.timeout(start_time).
BusStart ==
  \E b \in 1..Len(buses) :
    /\ Resumes(b, "init", "new")
    /\ Commit(Timeout([Popped EXCEPT !.buses[b].pc = "start"],
                      buses[b].start_time, <<"bus", b>>))

\* The start offset has passed: the bus makes its first stop visit.
BusFirstVisit ==
  \E b \in 1..Len(buses) :
    /\ Resumes(b, "timeout", "start")
    /\ \E d \in buses[b].travel : Commit(VisitTop(Popped, b, d))

\* The alighting delay has passed: boarding starts.
BusAlighted ==
  \E b \in 1..Len(buses) :
    /\ Resumes(b, "timeout", "alight")
    /\ \E d \in buses[b].travel : Commit(BoardInit(Popped, b, d))

\* The get event is dispatched: the bus receives the passenger it took.
BusBoard ==
  \E b \in 1..Len(buses) :
    /\ Resumes(b, "get", "get")
    /\ Commit(Board(Popped, b, Ev.item))

\* The boarding delay has passed: the boarding loop tests again.
BusBoarded ==
  \E b \in 1..Len(buses) :
    /\ Resumes(b, "timeout", "board")
    /\ \E d \in buses[b].travel : Commit(BoardLoop(Popped, b, d))

\* The minimum dwell has passed: the travel leg starts.
BusDwelled ==
  \E b \in 1..Len(buses) :
    /\ Resumes(b, "timeout", "dwell")
    /\ \E d \in buses[b].travel : Commit(TravelStart(Popped, b, d))

\* A travel step has passed: the next step, or the next stop.
BusTravelled ==
  \E b \in 1..Len(buses) :
    /\ Resumes(b, "timeout", "travel")
    /\ \E d \in buses[b].travel : Commit(TravelNext(Popped, b, d))

\* ------------------------------------------------------------ specification
Next ==
  \/ Setup
  \/ MonitorStart
  \/ MonitorTick
  \/ GenStart
  \/ GenArrive
  \/ PutDone
  \/ BusStart
  \/ BusFirstVisit
  \/ BusAlighted
  \/ BusBoard
  \/ BusBoarded
  \/ BusDwelled
  \/ BusTravelled
  \/ Halt

Spec == Init /\ [][Next]_vars

\* Environment.step(): the next event leaves the queue and is dispatched;
\* what its callbacks do is given by Next.
Step ==
  /\ Running
  /\ trace' = Append(trace, [time |-> Ev.time, prio |-> Ev.prio, eid |-> Ev.eid,
                             kind |-> Ev.kind, proc |-> Ev.proc])

\* env.run keeps calling Environment.step() as long as it has not returned.
SpecLive == Spec /\ WF_trace(Step)

\* ------------------------------------------------------------------ claims
Minutes(n) == n * 60

BusIds == 1..Len(buses)

\* The visits of bus b that have ended: the travel leg has started.
Departed(b) == {k \in 1..Len(visits[b]) : visits[b][k].depart # Unset}

\* The number of passengers onboard when boarding starts in visit v
Staying(v) == Len(v.onboard) - Len(v.alighted)

IsPrefix(p, q) == Len(p) <= Len(q) /\ SubSeq(q, 1, Len(p)) = p

\* C1: in every reachable state every bus carries between 0 and capacity
\* passengers.
C1_Capacity ==
  \A b \in BusIds : Len(buses[b].onboard) >= 0 /\ Len(buses[b].onboard) <= buses[b].capacity

\* C1 witness: a full bus is at a stop where passengers still wait, while
\* another bus of the route boards at the same stop at the same time.
C1_Witness ==
  \E b, b2 \in BusIds :
    /\ b # b2
    /\ buses[b].pc = "board" /\ buses[b2].pc \in {"board", "get"}
    /\ StopAt(buses[b]) = StopAt(buses[b2])
    /\ Len(buses[b].onboard) = buses[b].capacity
    /\ Len(items[StopAt(buses[b])]) > 0

\* C2: at every stop passengers are taken in exactly the order they were put,
\* across all buses; and a bus of capacity 2, the only one serving the stop,
\* that arrives empty where P1, P2, P3 wait boards P1 then P2 and leaves P3
\* at the head of the queue.
C2_Fifo ==
  /\ \A n \in DOMAIN takes : IsPrefix(takes[n], puts[n])
  /\ \A b \in BusIds : \A k \in Departed(b) :
       LET v == visits[b][k]
       IN  (Len(buses) = 1 /\ buses[b].capacity = 2 /\ Len(v.queued) = 3 /\ Staying(v) = 0)
             => /\ v.boarded = SubSeq(v.queued, 1, 2)
                /\ (k = Len(visits[b]) /\ buses[b].pc = "travel")
                     => (items[v.stop] # <<>> /\ Head(items[v.stop]) = v.queued[3])

\* C2 witness: the bus of capacity 2 has left a stop where three waited.
C2_Witness ==
  \E b \in BusIds : \E k \in Departed(b) :
    /\ buses[b].capacity = 2 /\ Len(visits[b][k].queued) = 3
    /\ Staying(visits[b][k]) = 0
    /\ Len(visits[b][k].boarded) = 2
    /\ k = Len(visits[b]) /\ Len(buses) = 1 /\ buses[b].pc = "travel"

\* The passengers of a sequence of passenger ids
Elems(q) == {q[i] : i \in 1..Len(q)}

\* The position of passenger p in metrics["passenger_records"], 0 if absent
RecordIndex(p) ==
  LET r == metrics.passenger_records
      hits == {i \in 1..Len(r) : r[i].id = p}
  IN  IF hits = {} THEN 0 ELSE CHOOSE i \in hits : \A j \in hits : i <= j

\* Scenario 1: one route [X, Y], one bus of capacity 2; the bus reaches X at
\* minute 5 where two passengers wait, arrived at minutes 1 and 2, both for Y;
\* the visit has ended.
Scenario1(b, k) ==
  LET v == visits[b][k]
  IN  /\ Len(buses) = 1 /\ buses[b].capacity = 2 /\ buses[b].stops = <<"X", "Y">>
      /\ k \in Departed(b)
      /\ v.stop = "X" /\ v.arrive = Minutes(5)
      /\ Len(v.queued) = 2
      /\ pax[v.queued[1]].arrival_time = Minutes(1)
      /\ pax[v.queued[2]].arrival_time = Minutes(2)
      /\ pax[v.queued[1]].destination = "Y" /\ pax[v.queued[2]].destination = "Y"

\* C3 as stated: in Scenario 1 both passengers get board time 5, the one who
\* arrived at minute 1 first.
C3_BothBoardAtFive ==
  \A b \in BusIds : \A k \in 1..Len(visits[b]) :
    Scenario1(b, k) =>
      LET v == visits[b][k]
      IN  /\ v.boarded = v.queued
          /\ pax[v.queued[1]].board_time = Minutes(5)
          /\ pax[v.queued[2]].board_time = Minutes(5)

\* C3 amended: in Scenario 1 the passenger who arrived at minute 1 boards
\* first, at minute 5, and the other boards one BOARDING_TIME later.
C3_BoardInOrder ==
  \A b \in BusIds : \A k \in 1..Len(visits[b]) :
    Scenario1(b, k) =>
      LET v == visits[b][k]
      IN  /\ v.boarded = v.queued
          /\ RecordIndex(v.queued[1]) = 1 /\ RecordIndex(v.queued[2]) = 2
          /\ pax[v.queued[1]].board_time = Minutes(5)
          /\ pax[v.queued[2]].board_time = Minutes(5) + BOARDING_TIME

\* C3 witness: Scenario 1 has happened.
C3_Witness == \E b \in BusIds : \E k \in 1..Len(visits[b]) : Scenario1(b, k)

\* C4: of two events with the same trigger time the one created first (the
\* lower eid) is dispatched first: no event is dispatched after, or while it
\* is still pending behind, a younger event of the same time.
C4_CreationOrder ==
  /\ \A i, j \in 1..Len(trace) :
       (i < j /\ trace[i].time = trace[j].time) => trace[i].eid < trace[j].eid
  /\ \A i \in 1..Len(trace) : \A j \in 1..Len(env.queue) :
       trace[i].time = env.queue[j].time => trace[i].eid < env.queue[j].eid

\* C4 witness: two timeouts of the same time, after the start, have resumed
\* processes of different kinds.
C4_Witness ==
  \E i, j \in 1..Len(trace) :
    /\ i < j /\ trace[i].time = trace[j].time /\ trace[i].time > 0
    /\ trace[i].kind = "timeout" /\ trace[j].kind = "timeout"
    /\ trace[i].proc[1] # trace[j].proc[1]

\* C5: a boarded passenger has arrival_time <= board_time, an alighted one
\* has boarded and has board_time <= alight_time.
C5_TimesOrdered ==
  \A p \in DOMAIN pax :
    /\ pax[p].board_time # Unset => pax[p].arrival_time <= pax[p].board_time
    /\ pax[p].alight_time # Unset =>
         pax[p].board_time # Unset /\ pax[p].board_time <= pax[p].alight_time

\* C5 witness: a passenger who waited has boarded and alighted.
C5_Witness ==
  \E p \in DOMAIN pax :
    pax[p].alight_time # Unset /\ pax[p].arrival_time < pax[p].board_time

\* C6: the minimum dwell is taken at a stop visit exactly if nobody boarded
\* and nobody alighted in that visit, and then the travel leg starts exactly
\* MIN_DWELL after the dwell began.
C6_DwellFallback ==
  \A b \in BusIds : \A k \in 1..Len(visits[b]) :
    LET v == visits[b][k]
        idle == v.boarded = <<>> /\ v.alighted = <<>>
    IN  /\ v.dwell # Unset => idle
        /\ v.depart # Unset => (idle => v.dwell # Unset)
        /\ (v.dwell # Unset /\ v.depart # Unset) => v.depart = v.dwell + MIN_DWELL
        /\ (v.dwell # Unset /\ v.depart = Unset) =>
             /\ k = Len(visits[b]) /\ buses[b].pc = "dwell"
             /\ env.now <= v.dwell + MIN_DWELL

\* C6 witness: a bus has dwelt at one stop, and has left another where a
\* passenger alighted and nobody boarded without dwelling.
C6_Witness ==
  \E b \in BusIds : \E k, j \in Departed(b) :
    /\ visits[b][k].dwell # Unset
    /\ visits[b][j].dwell = Unset
    /\ visits[b][j].boarded = <<>> /\ visits[b][j].alighted # <<>>

\* The next visit of bus b, after visit k, to the stop of visit k; 0 if none
NextVisitAt(b, k) ==
  LET later == {j \in (k + 1)..Len(visits[b]) : visits[b][j].stop = visits[b][k].stop}
  IN  IF later = {} THEN 0 ELSE CHOOSE j \in later : \A i \in later : j <= i

\* Scenario 2: the only bus, of capacity 1, has ended visit k, at whose start
\* two passengers waited at the stop.
Scenario2(b, k) ==
  /\ Len(buses) = 1 /\ buses[b].capacity = 1
  /\ k \in Departed(b)
  /\ Len(visits[b][k].queued) = 2

\* C7 as stated: in Scenario 2 exactly one passenger boards in this visit,
\* the other stays queued and boards on the bus's next visit to the stop.
C7_OtherBoardsNextLap ==
  \A b \in BusIds : \A k \in 1..Len(visits[b]) :
    Scenario2(b, k) =>
      LET v == visits[b][k]
          j == NextVisitAt(b, k)
      IN  /\ Len(v.boarded) = 1
          /\ v.queued[2] \notin Elems(v.boarded)
          /\ (j # 0 /\ j \in Departed(b)) => v.queued[2] \in Elems(visits[b][j].boarded)

\* C7 amended: in Scenario 2, if the bus has a free seat when boarding
\* starts, exactly the head of the queue boards and the other stays queued;
\* the other boards on the bus's next visit to the stop if the bus has a free
\* seat there too.
C7_OtherBoardsWhenSeatFree ==
  \A b \in BusIds : \A k \in 1..Len(visits[b]) :
    (Scenario2(b, k) /\ Staying(visits[b][k]) < buses[b].capacity) =>
      LET v == visits[b][k]
          j == NextVisitAt(b, k)
      IN  /\ v.boarded = <<v.queued[1]>>
          /\ (j # 0 /\ j \in Departed(b) /\ Staying(visits[b][j]) < buses[b].capacity)
               => visits[b][j].boarded = <<v.queued[2]>>

\* C7 witness: in Scenario 2 one passenger has boarded and the other has
\* boarded on the next visit to the stop.
C7_Witness ==
  \E b \in BusIds : \E k \in 1..Len(visits[b]) :
    /\ Scenario2(b, k) /\ Staying(visits[b][k]) < buses[b].capacity
    /\ NextVisitAt(b, k) \in Departed(b)
    /\ visits[b][NextVisitAt(b, k)].boarded = <<visits[b][k].queued[2]>>

\* The passengers generated at the last stop of their route
LastStopPax ==
  {p \in DOMAIN pax :
     \E g \in 1..Len(gens) :
       /\ gens[g].stop = pax[p].origin
       /\ gens[g].route_stops[Len(gens[g].route_stops)] = pax[p].origin}

\* C8 as stated: a passenger generated at the last stop of its route has its
\* origin as destination and, once boarded, is never removed from the bus.
C8_NeverAlights ==
  \A p \in LastStopPax :
    /\ pax[p].destination = pax[p].origin
    /\ pax[p].board_time # Unset =>
         /\ pax[p].alight_time = Unset
         /\ \E b \in BusIds : p \in Elems(buses[b].onboard)

\* C8 amended: a passenger generated at the last stop of its route has its
\* origin as destination and, once boarded, stays onboard for one lap: it
\* alights at the bus's next visit to that stop and at no visit before.
C8_AlightsAfterOneLap ==
  \A p \in LastStopPax :
    /\ pax[p].destination = pax[p].origin
    /\ \A b \in BusIds : \A k \in 1..Len(visits[b]) :
         p \in Elems(visits[b][k].boarded) =>
           LET lap == k + Len(buses[b].stops)
           IN  /\ \A j \in (k + 1)..Len(visits[b]) :
                    p \in Elems(visits[b][j].alighted) <=> j = lap
               /\ IF Len(visits[b]) >= lap
                  THEN pax[p].alight_time = visits[b][lap].arrive
                  ELSE pax[p].alight_time = Unset /\ p \in Elems(buses[b].onboard)

\* C8 witness: a passenger generated at the last stop has alighted.
C8_Witness == \E p \in LastStopPax : pax[p].alight_time # Unset

\* The samples recorded so far
Series == metrics.queue_time_series

\* C9 as stated: the sampler suspends first, so every sample has time >= 1.
C9_FirstSampleAtOne ==
  \A n \in DOMAIN Series : \A i \in 1..Len(Series[n]) : Series[n][i][1] >= Minutes(1)

\* C9 amended: the sampler records one sample per stop and only then
\* suspends for 1 time unit, repeating: once it has started every stop has a
\* sample, the first samples carry time 0, and the sample times are exactly
\* 0, 1, 2, ... below the horizon.
C9_SamplesFromZero ==
  /\ (\E i \in 1..Len(trace) : trace[i].proc = <<"mon", 0>>)
        => DOMAIN Series = StopsOf(cfg)
  /\ \A n \in DOMAIN Series :
       /\ Len(Series[n]) = Cardinality({i \in 1..Len(trace) : trace[i].proc = <<"mon", 0>>})
       /\ \A i \in 1..Len(Series[n]) :
            /\ Series[n][i][1] = Minutes(i - 1)
            /\ Series[n][i][1] < cfg.sim_time

\* C9 witness: three samples of a stop have been recorded.
C9_Witness == \E n \in DOMAIN Series : Len(Series[n]) >= 3

\* The arrival rates that name a stop absent from every route
OrphanRates(c) == {i \in 1..Len(c.rates) : RouteOf(c, c.rates[i].stop) = 0}

\* C10 as stated: an arrival rate for a stop absent from every route is a
\* fatal configuration error at setup: the scheduler never starts.
C10_OrphanRateAborts ==
  OrphanRates(cfg) # {} => status = "setup"

\* C11: only events with a trigger time below the horizon are dispatched,
\* then the run halts: no arrival, boarding, alighting, stop visit, travel
\* step or sample happens at a time >= SIM_TIME, and the processes still
\* suspended at the horizon are left pending.
C11_StopsAtHorizon ==
  /\ \A i \in 1..Len(trace) :
       /\ trace[i].kind # "until" => trace[i].time < cfg.sim_time
       /\ trace[i].kind = "until" => i = Len(trace) /\ status = "halted"
  /\ \A p \in DOMAIN pax :
       /\ pax[p].arrival_time < cfg.sim_time
       /\ pax[p].board_time < cfg.sim_time
       /\ pax[p].alight_time < cfg.sim_time
  /\ \A n \in DOMAIN Series : \A i \in 1..Len(Series[n]) : Series[n][i][1] < cfg.sim_time
  /\ \A b \in BusIds : \A k \in 1..Len(visits[b]) :
       visits[b][k].arrive < cfg.sim_time /\ visits[b][k].depart < cfg.sim_time
  /\ status = "running" => env.now < cfg.sim_time
  /\ status = "halted" =>
       /\ env.now = cfg.sim_time
       /\ env.queue # <<>>
       /\ \A j \in 1..Len(env.queue) : env.queue[j].time >= cfg.sim_time

\* C11 witness: the run has halted with an event due exactly at the horizon
\* and a bus in the middle of a travel leg left pending.
C11_Witness ==
  /\ status = "halted"
  /\ \E j \in 1..Len(env.queue) : env.queue[j].time = cfg.sim_time
  /\ \E b \in BusIds : buses[b].pc = "travel"

\* C12: at every stop the queue length is the number of puts minus the
\* number of takes so far, never negative: the queue holds exactly the
\* passengers put and not yet taken, in order.
C12_QueueLength ==
  \A n \in DOMAIN items :
    /\ Len(items[n]) = Len(puts[n]) - Len(takes[n])
    /\ Len(items[n]) >= 0
    /\ puts[n] = takes[n] \o items[n]

\* C12 witness: a stop has seen several puts and a take and still holds a
\* passenger.
C12_Witness ==
  \E n \in DOMAIN items : Len(puts[n]) >= 3 /\ Len(takes[n]) >= 1 /\ Len(items[n]) >= 1

\* The sum of the values of a dict of numbers
RECURSIVE SumOf(_)
SumOf(d) ==
  IF DOMAIN d = {} THEN 0
  ELSE LET k == CHOOSE k \in DOMAIN d : TRUE
       IN  d[k] + SumOf([x \in DOMAIN d \ {k} |-> d[x]])

\* The boardings so far: the passengers boarded in the visits of all buses
RECURSIVE BoardingsUpTo(_)
BoardingsUpTo(b) ==
  IF b = 0 THEN 0
  ELSE BoardingsUpTo(b - 1)
         + SumOf([k \in 1..Len(visits[b]) |-> Len(visits[b][k].boarded)])

\* C13: the served-per-stop counters sum to the number of boardings so far,
\* which is the number of passenger records and of recorded waiting times;
\* each stop's counter is the number of records with that origin.
C13_CountsAgree ==
  /\ SumOf(metrics.served_per_stop) = BoardingsUpTo(Len(buses))
  /\ Len(metrics.passenger_records) = BoardingsUpTo(Len(buses))
  /\ Len(metrics.waiting_times) = BoardingsUpTo(Len(buses))
  /\ Cardinality({p \in DOMAIN pax : pax[p].board_time # Unset}) = BoardingsUpTo(Len(buses))
  /\ \A n \in DOMAIN metrics.served_per_stop :
       metrics.served_per_stop[n] =
         Cardinality({i \in 1..Len(metrics.passenger_records) :
                        metrics.passenger_records[i].origin = n})
  /\ \A i \in 1..Len(metrics.waiting_times) :
       metrics.waiting_times[i] =
         metrics.passenger_records[i].board - metrics.passenger_records[i].arrival

\* C13 witness: passengers have been served at two stops, several at one.
C13_Witness ==
  \E n, n2 \in DOMAIN metrics.served_per_stop :
    n # n2 /\ metrics.served_per_stop[n] >= 2

\* The number of occurrences of x in the sequence q
Count(q, x) == Cardinality({i \in 1..Len(q) : q[i] = x})

\* The number of times passenger p is held in the queue of a stop
InQueues(p) == SumOf([n \in DOMAIN items |-> Count(items[n], p)])

\* The number of times passenger p is held onboard a bus
Onboard(p) == SumOf([b \in BusIds |-> Count(buses[b].onboard, p)])

\* The number of takes in flight (taken, not yet boarded) that hold passenger p
InHand(p) ==
  Cardinality({j \in 1..Len(env.queue) :
                 env.queue[j].kind = "get" /\ env.queue[j].item = p})

\* The number of times passenger p was boarded, over all visits of all buses
TimesBoarded(p) ==
  SumOf([b \in BusIds |->
           SumOf([k \in 1..Len(visits[b]) |-> Count(visits[b][k].boarded, p)])])

\* C14: a passenger is held by at most one container (a stop's queue, a take
\* in flight, one bus) and moves only forward: queued before boarding,
\* onboard after boarding and before alighting, nowhere after alighting;
\* it is taken and boarded at most once.
C14_OneHolder ==
  \A p \in DOMAIN pax :
    /\ InQueues(p) + InHand(p) + Onboard(p) <= 1
    /\ TimesBoarded(p) <= 1
    /\ SumOf([n \in DOMAIN takes |-> Count(takes[n], p)]) <= 1
    /\ Count([i \in 1..Len(metrics.passenger_records) |->
                metrics.passenger_records[i].id], p) <= 1
    /\ InQueues(p) = 1 => pax[p].board_time = Unset /\ pax[p].alight_time = Unset
    /\ InHand(p) = 1 => pax[p].board_time = Unset /\ pax[p].alight_time = Unset
    /\ Onboard(p) = 1 => pax[p].board_time # Unset /\ pax[p].alight_time = Unset
    /\ pax[p].board_time # Unset => TimesBoarded(p) = 1
    /\ pax[p].board_time # Unset /\ pax[p].alight_time = Unset => Onboard(p) = 1
    /\ pax[p].alight_time # Unset =>
         pax[p].board_time # Unset /\ InQueues(p) + InHand(p) + Onboard(p) = 0

\* C14 witness: two buses stand at the same stop at the same time and each
\* has boarded a passenger of that stop's queue there.
C14_Witness ==
  \E b1, b2 \in BusIds :
    /\ b1 # b2 /\ visits[b1] # <<>> /\ visits[b2] # <<>>
    /\ LET v1 == visits[b1][Len(visits[b1])]
           v2 == visits[b2][Len(visits[b2])]
       IN  /\ v1.stop = v2.stop /\ v1.depart = Unset /\ v2.depart = Unset
           /\ v1.boarded # <<>> /\ v2.boarded # <<>>
           /\ \E i \in 1..Len(v1.boarded), j \in 1..Len(v2.boarded) :
                pax[v1.boarded[i]].board_time = pax[v2.boarded[j]].board_time

\* The passengers of visit v that arrived onboard and stay onboard
Kept(v) == SelectSeq(v.onboard, LAMBDA id : pax[id].destination # v.stop)

\* C15: at every stop visit exactly the onboard passengers whose destination
\* is the stop are removed, the others stay onboard in order; each removed
\* passenger's alight_time is the arrival time of the visit; boarding starts
\* alighting_count x ALIGHTING_TIME after the arrival, and the bus is
\* suspended in the alighting delay only when somebody alighted.
C15_Alight ==
  \A b \in BusIds : \A k \in 1..Len(visits[b]) :
    LET v    == visits[b][k]
        last == k = Len(visits[b])
    IN  /\ v.alighted = SelectSeq(v.onboard, LAMBDA id : pax[id].destination = v.stop)
        /\ \A i \in 1..Len(v.alighted) : pax[v.alighted[i]].alight_time = v.arrive
        /\ last => buses[b].onboard = Kept(v) \o v.boarded
        /\ ~last => visits[b][k + 1].onboard = Kept(v) \o v.boarded
        /\ v.board_start # Unset =>
             v.board_start = v.arrive + Len(v.alighted) * ALIGHTING_TIME
        /\ v.alighted = <<>> => v.board_start = v.arrive
        /\ v.board_start = Unset =>
             /\ last /\ v.alighted # <<>> /\ buses[b].pc = "alight"
             /\ \E j \in 1..Len(env.queue) :
                  /\ env.queue[j].kind = "timeout" /\ env.queue[j].proc = <<"bus", b>>
                  /\ env.queue[j].time = v.arrive + Len(v.alighted) * ALIGHTING_TIME
        /\ last /\ buses[b].pc = "alight" => v.board_start = Unset

\* C15 witness: a bus arrived with two passengers, one alighted and the other
\* stayed, and the alighting delay has passed.
C15_Witness ==
  \E b \in BusIds : \E k \in 1..Len(visits[b]) :
    LET v == visits[b][k]
    IN  /\ Len(v.onboard) >= 2 /\ Len(v.alighted) = 1 /\ Kept(v) # <<>>
        /\ v.board_start # Unset

\* The records emitted for passenger p
RecordsOf(p) ==
  {i \in 1..Len(metrics.passenger_records) : metrics.passenger_records[i].id = p}

\* C16: exactly one record is emitted per boarding, at boarding time (its
\* board field is the passenger's board time and the records follow the
\* order of boarding), and the alight field of every record is unset, also
\* after the passenger has alighted.
C16_RecordAtBoarding ==
  /\ \A p \in DOMAIN pax :
       Cardinality(RecordsOf(p)) = IF pax[p].board_time # Unset THEN 1 ELSE 0
  /\ \A i \in 1..Len(metrics.passenger_records) :
       LET r == metrics.passenger_records[i]
       IN  /\ r.id \in DOMAIN pax
           /\ r.alight = Unset
           /\ r.board = pax[r.id].board_time
           /\ r.board <= env.now
           /\ i > 1 => metrics.passenger_records[i - 1].board <= r.board
  /\ Len(metrics.passenger_records) = BoardingsUpTo(Len(buses))

\* C16 witness: a passenger has alighted, its alight_time is set, and its
\* record still has no alight time.
C16_Witness ==
  \E i \in 1..Len(metrics.passenger_records) :
    LET r == metrics.passenger_records[i]
    IN  pax[r.id].alight_time # Unset /\ r.alight = Unset

\* C17: within one stop visit the k-th passenger boarded has board_time =
\* boarding start + (k-1) x BOARDING_TIME, and the travel leg starts no
\* earlier than boarded x BOARDING_TIME after boarding started (exactly then
\* when somebody boarded).
C17_DelayPerBoarding ==
  \A b \in BusIds : \A k \in 1..Len(visits[b]) :
    LET v == visits[b][k]
        n == Len(v.boarded)
    IN  /\ \A i \in 1..n :
             pax[v.boarded[i]].board_time = v.board_start + (i - 1) * BOARDING_TIME
        /\ v.depart # Unset =>
             /\ v.depart >= v.board_start + n * BOARDING_TIME
             /\ n > 0 => v.depart = v.board_start + n * BOARDING_TIME
        /\ k = Len(visits[b]) /\ buses[b].pc = "travel" => v.depart # Unset
        /\ k < Len(visits[b]) => v.depart # Unset

\* C17 witness: a bus boarded two passengers in one visit, three seconds
\* apart, and has left.
C17_Witness ==
  \E b \in BusIds : \E k \in 1..Len(visits[b]) :
    LET v == visits[b][k]
    IN  /\ Len(v.boarded) >= 2 /\ v.depart # Unset
        /\ pax[v.boarded[2]].board_time = pax[v.boarded[1]].board_time + BOARDING_TIME

\* The time travelled so far on the leg that follows visit k of bus b
Travelled(b, k) ==
  LET v == visits[b][k]
  IN  IF v.travel_time = Unset THEN 0
      ELSE IF k = Len(visits[b])
           THEN v.travel_time - buses[b].t + buses[b].step
           ELSE v.travel_time

\* The number of passengers onboard when bus b leaves visit k
Load(b, k) == Len(Kept(visits[b][k])) + Len(visits[b][k].boarded)

\* C18: every travel leg lasts at least half a minute, whatever the draw; it
\* is run as steps of min(1 minute, remaining) that add up to the duration
\* exactly (the next arrival is the departure plus the duration); the
\* bus's active time is the time travelled and its occupied time is the
\* load times the time travelled, and the metrics hold the same totals.
C18_TravelSteps ==
  \A b \in BusIds :
    LET bu == buses[b]
        n  == Len(visits[b])
    IN  /\ \A k \in 1..n :
             LET v == visits[b][k]
             IN  /\ v.travel_time # Unset =>
                      /\ v.travel_time >= MIN_TRAVEL
                      /\ \E d \in bu.travel : v.travel_time = Max(MIN_TRAVEL, d)
                 /\ k < n => /\ v.travel_time # Unset
                             /\ visits[b][k + 1].arrive = v.depart + v.travel_time
                 /\ k = n => (v.travel_time # Unset <=> bu.pc = "travel")
        /\ bu.pc = "travel" =>
             /\ bu.step = Min(TRAVEL_STEP, bu.t)
             /\ 0 < bu.step /\ bu.step <= TRAVEL_STEP
             /\ 0 < bu.t /\ bu.t <= visits[b][n].travel_time
             /\ \E j \in 1..Len(env.queue) :
                  /\ env.queue[j].kind = "timeout" /\ env.queue[j].proc = <<"bus", b>>
                  /\ env.queue[j].time = visits[b][n].depart + Travelled(b, n)
        /\ bu.active_minutes = SumOf([k \in 1..n |-> Travelled(b, k)])
        /\ bu.occupied_minutes = SumOf([k \in 1..n |-> Load(b, k) * Travelled(b, k)])
        /\ status # "setup" =>
             /\ metrics.bus_stats[bu.id].active_minutes = bu.active_minutes
             /\ metrics.bus_stats[bu.id].occupied_minutes = bu.occupied_minutes
             /\ metrics.bus_stats[bu.id].trips_completed = bu.trips_completed

\* C18 witness: a bus whose draws include a negative one has completed a leg
\* of half a minute and a leg of 2.4 minutes (steps 1, 1, 0.4) with
\* passengers onboard.
C18_Witness ==
  \E b \in BusIds : \E k1, k2 \in 1..(Len(visits[b]) - 1) :
    /\ \E d \in buses[b].travel : d < 0
    /\ visits[b][k1].travel_time = MIN_TRAVEL
    /\ visits[b][k2].travel_time = 2 * TRAVEL_STEP + 24
    /\ Load(b, k2) > 0
    /\ buses[b].occupied_minutes >= visits[b][k2].travel_time

\* The events of the queue that will resume bus b
PendingFor(b) == {j \in 1..Len(env.queue) : env.queue[j].proc = <<"bus", b>>}

\* C19: no stop ever has a pending take: a bus that has issued a take has
\* already been handed a passenger, removed from the queue, by an event due
\* at the present time; while the run goes on every bus has exactly one
\* event that will resume it.
C19_NoPendingTake ==
  /\ \A n \in DOMAIN waiting : waiting[n] = <<>>
  /\ \A b \in BusIds :
       /\ status = "running" => Cardinality(PendingFor(b)) = 1
       /\ buses[b].pc = "get" /\ status = "running" =>
            \E j \in PendingFor(b) :
              /\ env.queue[j].kind = "get" /\ env.queue[j].time = env.now
              /\ env.queue[j].item \in DOMAIN pax
              /\ InQueues(env.queue[j].item) = 0
              /\ LET t == takes[StopAt(buses[b])]
                 IN  \E i \in 1..Len(t) : t[i] = env.queue[j].item
       /\ buses[b].pc # "get" =>
            \A j \in PendingFor(b) : env.queue[j].kind # "get"

\* C19 witness: two buses at the same stop have both issued a take at the
\* same time, and each has been handed its own passenger.
C19_Witness ==
  \E b1, b2 \in BusIds :
    /\ b1 # b2 /\ status = "running"
    /\ buses[b1].pc = "get" /\ buses[b2].pc = "get"
    /\ StopAt(buses[b1]) = StopAt(buses[b2])
    /\ \E j1 \in PendingFor(b1), j2 \in PendingFor(b2) :
         /\ env.queue[j1].time = env.queue[j2].time
         /\ env.queue[j1].item # env.queue[j2].item
    /\ waiting[StopAt(buses[b1])] = <<>>

\* Stop n is on the route of bus b, after the stop named from
Downstream(b, from, n) ==
  \E i, j \in 1..Len(buses[b].stops) :
    /\ buses[b].stops[i] = from /\ buses[b].stops[j] = n /\ i < j

\* The number of legs from stop from to stop n on the route of bus b
Legs(b, from, n) == IndexOf(buses[b].stops, n) - IndexOf(buses[b].stops, from)

\* The longest time bus b can take from a boarding to its next arrival:
\* everybody alights and boards, or the minimum dwell, then the longest leg
MaxLeg(b) ==
  LET legs == {Max(MIN_TRAVEL, d) : d \in buses[b].travel}
  IN  buses[b].capacity * (ALIGHTING_TIME + BOARDING_TIME) + MIN_DWELL
        + (CHOOSE x \in legs : \A y \in legs : y <= x)

\* Passenger p rides bus b to a stop downstream of its origin
Riding(b, p) ==
  /\ Count(buses[b].onboard, p) = 1
  /\ Downstream(b, pax[p].origin, pax[p].destination)

\* Passenger p boarded bus b early enough for the bus to reach the
\* destination before the horizon
InTime(b, p) ==
  pax[p].board_time
    + Legs(b, pax[p].origin, pax[p].destination) * MaxLeg(b) < cfg.sim_time

\* A passenger that boarded at visit k of bus b for a stop downstream stays
\* onboard over the visits before the destination, none of which is the
\* destination or the first stop of the route, and alights at the first
\* arrival at the destination; until then it is onboard.
C20_AlightsAtFirstArrival ==
  \A b \in BusIds : \A k \in 1..Len(visits[b]) :
    \A i \in 1..Len(visits[b][k].boarded) :
      LET p    == visits[b][k].boarded[i]
          dest == pax[p].destination
          n    == Len(visits[b])
          m    == k + Legs(b, visits[b][k].stop, dest)
      IN  Downstream(b, visits[b][k].stop, dest) =>
            /\ \A q \in (k + 1)..Min(m - 1, n) :
                 /\ visits[b][q].stop # dest
                 /\ IndexOf(buses[b].stops, visits[b][q].stop) # 1
                 /\ Count(visits[b][q].onboard, p) = 1
                 /\ Count(visits[b][q].alighted, p) = 0
            /\ m <= n =>
                 /\ visits[b][m].stop = dest
                 /\ IndexOf(buses[b].stops, dest) # 1
                 /\ Count(visits[b][m].alighted, p) = 1
                 /\ pax[p].alight_time = visits[b][m].arrive
                 /\ Onboard(p) = 0
            /\ m > n =>
                 /\ Count(buses[b].onboard, p) = 1
                 /\ pax[p].alight_time = Unset
                 /\ status = "running" => PendingFor(b) # {}

\* The event env.run pops next belongs to a process that waits for it.
Dispatchable ==
  Running =>
    \/ Ev.kind \in {"until", "put"}
    \/ Ev.proc = <<"mon", 0>> /\ Ev.kind \in {"init", "timeout"}
    \/ /\ Ev.proc[1] = "gen" /\ Ev.kind \in {"init", "timeout"}
       /\ Ev.proc[2] \in DOMAIN gens /\ gens[Ev.proc[2]].draws # {}
    \/ /\ Ev.proc[1] = "bus" /\ Ev.proc[2] \in BusIds
       /\ buses[Ev.proc[2]].travel # {}
       /\ <<Ev.kind, buses[Ev.proc[2]].pc>> \in
            { <<"init", "new">>, <<"timeout", "start">>, <<"timeout", "alight">>,
              <<"get", "get">>, <<"timeout", "board">>, <<"timeout", "dwell">>,
              <<"timeout", "travel">> }

\* C20: every passenger that boards a bus for a stop downstream of its
\* origin is removed from the bus at the bus's first arrival at that stop,
\* within the same lap, and eventually so whenever the horizon leaves the bus
\* the time to get there.
C20_EventuallyAlights ==
  /\ [](C20_AlightsAtFirstArrival /\ Dispatchable)
  /\ <>[](\A b \in BusIds : \A p \in DOMAIN pax : ~(Riding(b, p) /\ InTime(b, p)))

\* C20 witness: a passenger that boarded at the first stop of a route of
\* three stops has stayed onboard at the second and alighted at the third.
C20_Witness ==
  \E b \in BusIds : \E k \in 1..Len(visits[b]) : \E p \in DOMAIN pax :
    /\ Len(buses[b].stops) = 3 /\ k + 2 <= Len(visits[b])
    /\ Count(visits[b][k].boarded, p) = 1
    /\ pax[p].origin = buses[b].stops[1] /\ pax[p].destination = buses[b].stops[3]
    /\ Count(visits[b][k + 1].onboard, p) = 1
    /\ Count(visits[b][k + 1].alighted, p) = 0
    /\ Count(visits[b][k + 2].alighted, p) = 1
    /\ pax[p].alight_time # Unset

====
